---- MODULE Spec2Model ----
(***************************************************************************)
(* A model of rodriggs/cortex:                                             *)
(*   src/op.py            the optimizers adam, adadelta, rmsprop and sgd   *)
(*   src/models/rbm.py    the RBM layer: Gibbs chain and free-energy cost  *)
(*   src/inference/rws.py reweighted wake-sleep importance weights         *)
(*                                                                         *)
(* Numbers.  The optimizers and the RBM compute in floating point; the     *)
(* model computes in decimal fixed point with six fractional digits        *)
(* (Scale units per 1.0), truncating toward zero.  Quantities below the    *)
(* resolution (1e-7, 1e-8) are 0 units; adadelta's running_up2 is held     *)
(* at the resolution 1e-12.  RWS works in the log domain; the              *)
(* model represents a log-domain number by the exact positive rational it  *)
(* is the logarithm of (see the RWS section).                              *)
(***************************************************************************)
EXTENDS Integers, Sequences, FiniteSets, TLC

(***************************************************************************)
(* State.  Each specification below runs one component; the variables of   *)
(* the others stay at their idle values.                                   *)
(***************************************************************************)
\* src/op.py
VARIABLES
    opt,            \* the optimizer whose (f_grad_shared, f_update) pair is held
    exclude_params, \* names of the parameters the optimizer must not update
    extra_ups,      \* keys of the shared variables the caller's extra_ups assign
    shared,         \* the values of all shared variables
    p_init,         \* the parameters' values at construction
    last,           \* the last call: function, lr, gradients of the latest f_grad_shared,
                    \* keys assigned, parameters before it, f_grad_shared calls so far
    run,            \* the f_update calls since the last f_grad_shared with one lr
    ncalls          \* calls made so far

\* src/models/rbm.py
VARIABLES
    rbm,      \* the parameters [W, b, c]: W is dim_v x dim_h
    args,     \* the call: [entry, x, h_p, n_steps]; h_p is None or a batch
    pc,       \* "start", "scan" (inside sample's scan), "cost" (back in __call__), "done"
    h0,       \* the hidden state the chain starts from
    chain,    \* scan's outputs so far: [hs, vs, phs, pvs]
    draws,    \* the uniform draws the latest sampling consumed: [r] or [r_h, r_v]
    h_carry,  \* the hidden state scan feeds to the next step
    results   \* the results of __call__, or None

\* src/inference/rws.py
VARIABLES
    rws_args, \* the call: [case, q, qk, y, n_posterior_samples]; qk is None or a batch
    rws_pc,   \* "start", "done"
    rws_h,    \* the sampled hidden states h, n_posterior_samples x batch x dim_h
    rws_out   \* what __call__ computed: w_tilde, w_norm, log_p, '-log p(x)'

opvars == <<opt, exclude_params, extra_ups, shared, p_init, last, run, ncalls>>

rbmvars == <<rbm, args, pc, h0, chain, draws, h_carry, results>>

rwsvars == <<rws_args, rws_pc, rws_h, rws_out>>

vars == <<opvars, rbmvars, rwsvars>>

None == "None"

(***************************************************************************)
(* Fixed-point arithmetic                                                  *)
(***************************************************************************)
Scale == 1000 * 1000

Abs(a) == IF a < 0 THEN -a ELSE a

Sgn(a) == IF a < 0 THEN -1 ELSE IF a = 0 THEN 0 ELSE 1

Max2(a, b) == IF a >= b THEN a ELSE b

Min2(a, b) == IF a <= b THEN a ELSE b

\* |a| * |b| / Scale without an intermediate product above 2^31
MulAbs(a, b) ==
    LET ah == a \div 1000
        al == a % 1000
        bh == b \div 1000
        bl == b % 1000
        t  == ah * bl + al * bh
    IN  ah * bh + (t \div 1000) + (((t % 1000) * 1000 + al * bl) \div Scale)

\* a * b of two fixed-point numbers
Mul(a, b) == Sgn(a) * Sgn(b) * MulAbs(Abs(a), Abs(b))

RECURSIVE Pow10(_)
Pow10(n) == IF n = 0 THEN 1 ELSE 10 * Pow10(n - 1)

\* the first n decimal digits of r / b, for 0 <= r < b
RECURSIVE LongDiv(_, _, _)
LongDiv(r, b, n) ==
    IF n = 0 THEN 0
    ELSE ((r * 10) \div b) * Pow10(n - 1) + LongDiv((r * 10) % b, b, n - 1)

\* a / b of two fixed-point numbers; 0 / x is 0 for every x, as it is in the
\* code, whose denominators carry an epsilon below the model's resolution
Div(a, b) ==
    IF a = 0 THEN 0
    ELSE LET aa == Abs(a)
             bb == Abs(b)
         IN  Sgn(a) * Sgn(b) * ((aa \div bb) * Scale + LongDiv(aa % bb, bb, 6))

\* the largest r in lo..hi with r * r <= n
RECURSIVE ISqrtIn(_, _, _)
ISqrtIn(n, lo, hi) ==
    IF lo >= hi THEN lo
    ELSE LET mid == (lo + hi + 1) \div 2
         IN  IF mid * mid <= n THEN ISqrtIn(n, mid, hi)
             ELSE ISqrtIn(n, lo, mid - 1)

ISqrt(n) == ISqrtIn(n, 0, 46340)

\* unit * sqrt(n) of a non-negative integer n: the integer root and the
\* first-order share of what the root leaves over
SqrtScaled(n, unit) ==
    LET s == ISqrt(n)
    IN  IF s = 0 THEN 0 ELSE s * unit + ((n - s * s) * unit) \div (2 * s)

\* T.sqrt of a non-negative fixed-point number
Sqrt(v) ==
    IF v <= 2147 THEN ISqrt(v * Scale)
    ELSE IF v <= 21474836 THEN SqrtScaled(v * 100, 100)
    ELSE SqrtScaled(v, 1000)

Sqr(a) == Mul(a, a)

RECURSIVE Pow(_, _)
Pow(b, n) == IF n = 0 THEN Scale ELSE Mul(b, Pow(b, n - 1))

\* a decimal constant num / den as a fixed-point number
Dec(num, den) == (num * Scale) \div den

RECURSIVE SumSeq(_)
SumSeq(s) == IF s = <<>> THEN 0 ELSE Head(s) + SumSeq(Tail(s))

\* tensors are sequences of fixed-point numbers; operations are elementwise
Zeros(t) == [k \in DOMAIN t |-> 0]

SumSqr(t) == SumSeq([k \in DOMAIN t |-> Sqr(t[k])])

(***************************************************************************)
(* src/op.py: the optimizers                                               *)
(*                                                                         *)
(* A theano shared variable is a key <<kind, name>> of the store `shared`. *)
(* A compiled theano.function evaluates every update expression on the    *)
(* store as it is at the call and then assigns them all at once.           *)
(***************************************************************************)
MaxCalls == 4

Optimizers == {"adam", "adadelta", "rmsprop", "sgd"}

\* tparams: an OrderedDict of a weight matrix (one column) and a bias vector
ParamNames == {"W", "b"}

K(kind, n) == <<kind, n>>

ParamKeys == {K("param", n) : n \in ParamNames}

\* str(k) of a shared variable: its name, or its type when it was given none
Str(k) ==
    CASE k[1] = "param" -> k[2]
      [] k[1] = "grad"  -> k[2] \o "_grad"
      [] OTHER          -> "<TensorType(float32, matrix)>"

\* 'W' in s, for the strings Str yields
ContainsW(s) == s \in {"W", "W_grad"}

\* the buffers each optimizer allocates beside the parameters
BufferKinds(o) ==
    CASE o = "adam"     -> {"grad", "m", "v"}
      [] o = "adadelta" -> {"grad", "rup2", "rgrad2"}
      [] o = "rmsprop"  -> {"grad", "rgrad", "rgrad2", "updir"}
      [] o = "sgd"      -> {"grad"}

IKey == K("i", "")

RngKey == K("extra", "rng")

\* the values tparams may hold at construction
InitParams ==
    { [n \in ParamNames |-> IF n = "W" THEN <<Dec(3, 2), -Dec(3, 2)>> ELSE <<Dec(1, 4)>>],
      [n \in ParamNames |-> IF n = "W" THEN <<Dec(1, 2), Dec(1, 4)>> ELSE <<0>>] }

\* the gradients one f_grad_shared call may compute, per optimizer: adam
\* divides by 100 and clips the global norm at 5, the others square the raw
\* gradient, so each gets values its arithmetic can hold
GradInputs(o) ==
    IF o = "adam"
    THEN { [n \in ParamNames |-> IF n = "W" THEN <<100 * Scale, -100 * Scale>> ELSE <<100 * Scale>>],
           [n \in ParamNames |-> IF n = "W" THEN <<600 * Scale, 0>> ELSE <<-300 * Scale>>] }
    ELSE { [n \in ParamNames |-> IF n = "W" THEN <<Scale, -2 * Scale>> ELSE <<Dec(1, 2)>>],
           [n \in ParamNames |-> IF n = "W" THEN <<-Scale, 0>> ELSE <<2 * Scale>>] }

\* the learning rates f_update may be called with
LrVals == {Dec(1, 2), Dec(1, 10)}

tparams == [n \in ParamNames |-> shared[K("param", n)]]

\* the shared variables a caller's extra_ups may assign: an rng state and,
\* as the updates a model's inference returns do, parameters of tparams
ExtraKeys == {RngKey} \cup ParamKeys

\* extra_ups: each listed shared variable advances (an rng state, a counter,
\* a parameter the model itself moves)
ExtraUpdates == [k \in extra_ups |-> [j \in DOMAIN shared[k] |-> shared[k][j] + Scale]]

\* ---- adam -------------------------------------------------------------
\* lr0 = 0.0002
lr0 == 200

b1 == Dec(1, 10)

b2 == Dec(1, 1000)

\* e = 1e-8, below the resolution
e == 0

\* 1.9365
MaxColNorm == 1936500

\* 1e-7, below the resolution
ColNormEps == 0

GradDivisor == 100

GNormMax == 5

\* op.py 21-30: every gradient is divided by 100, then all are scaled by
\* 5 / max(5, global norm)
AdamScaledGrads(grads) ==
    LET g100   == [n \in ParamNames |->
                     [j \in DOMAIN grads[n] |-> Div(grads[n][j], GradDivisor * Scale)]]
        order  == CHOOSE s \in [1..Cardinality(ParamNames) -> ParamNames] :
                     \A n \in ParamNames : \E x \in DOMAIN s : s[x] = n
        g_norm == Sqrt(SumSeq([x \in DOMAIN order |-> SumSqr(g100[order[x]])]))
        scaler == Div(GNormMax * Scale, Max2(GNormMax * Scale, g_norm))
    IN  [n \in ParamNames |-> [j \in DOMAIN g100[n] |-> Mul(g100[n][j], scaler)]]

\* op.py 32-34: gsup + extra_ups
AdamGradSharedUpdates(grads) ==
    LET g == AdamScaledGrads(grads)
    IN  [k \in {K("grad", n) : n \in ParamNames} |-> g[k[2]]] @@ ExtraUpdates

\* op.py 61-66: the column norms of an updated matrix clipped to 1.9365
ColNormRescale(updated_param) ==
    LET col_norms     == Sqrt(SumSqr(updated_param))
        desired_norms == Max2(0, Min2(col_norms, MaxColNorm))
        ratio         == Div(desired_norms, ColNormEps + col_norms)
    IN  [j \in DOMAIN updated_param |-> Mul(updated_param[j], ratio)]

\* an updates dictionary that holds every parameter, excluded or not
AdamUpdateKeysAll ==
    {K("m", n) : n \in ParamNames} \cup {K("v", n) : n \in ParamNames}
        \cup {K("param", n) : n \in ParamNames}

\* op.py 49-59: the keys of the updates dictionary before the rescaling loop
AdamUpdateKeys ==
    {K("m", n) : n \in ParamNames} \cup {K("v", n) : n \in ParamNames}
        \cup {K("param", n) : n \in ParamNames \ exclude_params}

\* op.py 61-62: the keys the rescaling loop rewrites
AdamRescaledKeys == {k \in AdamUpdateKeys : ContainsW(Str(k))}

\* op.py 43-68: the updates of f_update
AdamUpdates(lr) ==
    LET i_t  == shared[IKey][1] + Scale
        fix1 == Scale - Pow(b1, i_t \div Scale)
        fix2 == Scale - Pow(b2, i_t \div Scale)
        lr_t == Mul(lr0, Div(Sqrt(fix2), fix1))
        m_t(n) == [j \in DOMAIN shared[K("m", n)] |->
                     Mul(b1, shared[K("grad", n)][j]) + Mul(Scale - b1, shared[K("m", n)][j])]
        v_t(n) == [j \in DOMAIN shared[K("v", n)] |->
                     Mul(b2, Sqr(shared[K("grad", n)][j])) + Mul(Scale - b2, shared[K("v", n)][j])]
        g_t(n) == [j \in DOMAIN shared[K("m", n)] |-> Div(m_t(n)[j], Sqrt(v_t(n)[j]) + e)]
        p_t(n) == [j \in DOMAIN shared[K("param", n)] |->
                     shared[K("param", n)][j] - Mul(lr_t, g_t(n)[j])]
        first == [k \in AdamUpdateKeys |->
                     CASE k[1] = "m" -> m_t(k[2])
                       [] k[1] = "v" -> v_t(k[2])
                       [] OTHER      -> p_t(k[2])]
    IN  [k \in AdamUpdateKeys |->
            IF k \in AdamRescaledKeys THEN ColNormRescale(first[k]) ELSE first[k]]
        @@ [k \in {IKey} |-> <<i_t>>]

\* ---- adadelta ---------------------------------------------------------
\* running_up2 averages squared steps of about 1e-3, so its entries are of
\* the size of the 1e-6 they are added to.  The store holds running_up2 at
\* the resolution 1e-12 (an entry x stands for x / Scale / Scale) and the
\* step is computed at the resolution 1e-9; every other adadelta variable
\* is an ordinary fixed-point number.
Rho == Dec(95, 100)

OneMinusRho == Dec(5, 100)

Eps6 == 1

\* op.py 80-83: zgup + rg2up + extra_ups
AdadeltaGradSharedUpdates(grads) ==
    [k \in {K("grad", n) : n \in ParamNames} |-> grads[k[2]]]
    @@ [k \in {K("rgrad2", n) : n \in ParamNames} |->
          [j \in DOMAIN grads[k[2]] |->
             Mul(Rho, shared[k][j]) + Mul(OneMinusRho, Sqr(grads[k[2]][j]))]]
    @@ ExtraUpdates

\* op.py 85: -sqrt(ru2 + 1e-6) / sqrt(rg2 + 1e-6) * zg, in units of 1e-9;
\* ru2 is in units of 1e-12, so its root is in units of 1e-6 and
\* SqrtScaled(., 1000) gives the root in units of 1e-9
AdadeltaUpdirFine(n) ==
    [j \in DOMAIN shared[K("grad", n)] |->
        Mul(Div(-SqrtScaled(shared[K("rup2", n)][j] + Eps6 * Scale, 1000),
                Sqrt(shared[K("rgrad2", n)][j] + Eps6)),
            shared[K("grad", n)][j])]

\* op.py 85: updir as a fixed-point number, rounded to the nearest unit
AdadeltaUpdir(n) ==
    [j \in DOMAIN shared[K("grad", n)] |->
        Sgn(AdadeltaUpdirFine(n)[j]) * ((Abs(AdadeltaUpdirFine(n)[j]) + 500) \div 1000)]

\* op.py 87: the parameters param_up assigns
AdadeltaParamNames == ParamNames \ exclude_params

\* op.py 86-89: ru2up + param_up; the square of a step in units of 1e-9,
\* divided by Scale, is in the units of running_up2
AdadeltaUpdates(lr) ==
    [k \in {K("rup2", n) : n \in ParamNames} |->
        [j \in DOMAIN shared[k] |->
            Mul(Rho, shared[k][j]) + Mul(OneMinusRho, Sqr(AdadeltaUpdirFine(k[2])[j]))]]
    @@ [k \in {K("param", n) : n \in AdadeltaParamNames} |->
        [j \in DOMAIN shared[k] |-> shared[k][j] + AdadeltaUpdir(k[2])[j]]]

\* ---- rmsprop ----------------------------------------------------------
Momentum == Dec(9, 10)

Eps4 == 100

\* op.py 98-102: zgup + rgup + rg2up + extra_ups
RmspropGradSharedUpdates(grads) ==
    [k \in {K("grad", n) : n \in ParamNames} |-> grads[k[2]]]
    @@ [k \in {K("rgrad", n) : n \in ParamNames} |->
          [j \in DOMAIN grads[k[2]] |->
             Mul(Rho, shared[k][j]) + Mul(OneMinusRho, grads[k[2]][j])]]
    @@ [k \in {K("rgrad2", n) : n \in ParamNames} |->
          [j \in DOMAIN grads[k[2]] |->
             Mul(Rho, shared[k][j]) + Mul(OneMinusRho, Sqr(grads[k[2]][j]))]]
    @@ ExtraUpdates

\* op.py 105: 0.9 * ud - 1e-4 * zg / sqrt(rg2 - rg ** 2 + 1e-4)
RmspropUpdirNew(n) ==
    [j \in DOMAIN shared[K("updir", n)] |->
        Mul(Momentum, shared[K("updir", n)][j])
        - Div(Mul(Eps4, shared[K("grad", n)][j]),
              Sqrt(shared[K("rgrad2", n)][j] - Sqr(shared[K("rgrad", n)][j]) + Eps4))]

\* op.py 106: the parameters param_up assigns
RmspropParamNames == ParamNames \ exclude_params

\* op.py 105-107: updir_new + param_up
RmspropUpdates(lr) ==
    [k \in {K("updir", n) : n \in ParamNames} |-> RmspropUpdirNew(k[2])]
    @@ [k \in {K("param", n) : n \in RmspropParamNames} |->
        [j \in DOMAIN shared[k] |-> shared[k][j] + RmspropUpdirNew(k[2])[j]]]

\* ---- sgd --------------------------------------------------------------
\* a f_grad_shared that also takes the gradient step
SgdGradSharedUpdatesWithStep(grads) ==
    [k \in {K("grad", n) : n \in ParamNames} |-> grads[k[2]]] @@ ExtraUpdates
    @@ [k \in {K("param", n) : n \in ParamNames \ exclude_params} |->
          [j \in DOMAIN shared[k] |-> shared[k][j] - grads[k[2]][j]]]

\* op.py 114-116: gsup + extra_ups
SgdGradSharedUpdates(grads) ==
    [k \in {K("grad", n) : n \in ParamNames} |-> grads[k[2]]] @@ ExtraUpdates

\* op.py 118: the parameters pup assigns
SgdParamNames == ParamNames \ exclude_params

\* a pup that steps up the gradient
SgdUpdatesAscent(lr) ==
    [k \in {K("param", n) : n \in ParamNames \ exclude_params} |->
        [j \in DOMAIN shared[k] |-> shared[k][j] + Mul(lr, shared[K("grad", k[2])][j])]]

\* op.py 118-119: pup, p - lr * g with g the stored gradient
SgdUpdates(lr) ==
    [k \in {K("param", n) : n \in SgdParamNames} |->
        [j \in DOMAIN shared[k] |-> shared[k][j] - Mul(lr, shared[K("grad", k[2])][j])]]

\* op.py 119: sgd compiles f_update without on_unused_input='ignore', so
\* lr must occur in pup; with every parameter excluded pup is empty and
\* theano.function raises UnusedInputError
SgdCompiles(excl) == ParamNames \ excl # {}

\* ---- the pair (f_grad_shared, f_update) -------------------------------
\* the optimizers that return a pair: adam, adadelta and rmsprop compile
\* f_update with on_unused_input='ignore'
Constructs(o, excl) == o = "sgd" => SgdCompiles(excl)

GradSharedUpdates(o, grads) ==
    CASE o = "adam"     -> AdamGradSharedUpdates(grads)
      [] o = "adadelta" -> AdadeltaGradSharedUpdates(grads)
      [] o = "rmsprop"  -> RmspropGradSharedUpdates(grads)
      [] o = "sgd"      -> SgdGradSharedUpdates(grads)

UpdateUpdates(o, lr) ==
    CASE o = "adam"     -> AdamUpdates(lr)
      [] o = "adadelta" -> AdadeltaUpdates(lr)
      [] o = "rmsprop"  -> RmspropUpdates(lr)
      [] o = "sgd"      -> SgdUpdates(lr)

\* theano.function(..., updates=ups): all updates are assigned at once
ApplyUpdates(ups) ==
    [k \in DOMAIN shared |-> IF k \in DOMAIN ups THEN ups[k] ELSE shared[k]]

\* the shared variables an optimizer holds after construction: the
\* parameters, its zeroed buffers (p.get_value() * 0.), adam's counter and
\* the variables extra_ups names
InitShared(o, params, extras) ==
    [k \in ParamKeys \cup {K(kind, n) : kind \in BufferKinds(o), n \in ParamNames}
           \cup (IF o = "adam" THEN {IKey} ELSE {}) \cup extras |->
        CASE k[1] = "param" -> params[k[2]]
          [] k[1] \in {"i", "extra"} -> <<0>>
          [] OTHER -> Zeros(params[k[2]])]

ZeroGrads == [n \in ParamNames |-> Zeros(p_init[n])]

InitOp ==
    /\ opt \in Optimizers
    /\ exclude_params \in SUBSET ParamNames
    /\ Constructs(opt, exclude_params)
    /\ extra_ups \in SUBSET ExtraKeys
    /\ p_init \in InitParams
    /\ shared = InitShared(opt, p_init, extra_ups)
    /\ last = [fn |-> "none", lr |-> 0, grads |-> ZeroGrads, written |-> {},
               before |-> p_init, ngrad |-> 0]
    /\ run = [k |-> 0, lr |-> 0, base |-> p_init]
    /\ ncalls = 0

\* f_grad_shared(*inp): the gradients of the cost at inp are the input
FGradShared ==
    /\ ncalls < MaxCalls
    /\ \E grads \in GradInputs(opt) :
         LET ups == GradSharedUpdates(opt, grads)
         IN  /\ shared' = ApplyUpdates(ups)
             /\ last' = [fn |-> "f_grad_shared", lr |-> 0, grads |-> grads,
                         written |-> DOMAIN ups, before |-> tparams,
                         ngrad |-> last.ngrad + 1]
             /\ run' = [k |-> 0, lr |-> 0, base |-> tparams]
    /\ ncalls' = ncalls + 1
    /\ UNCHANGED <<opt, exclude_params, extra_ups, p_init>>
    /\ UNCHANGED <<rbmvars, rwsvars>>

\* f_update(lr)
FUpdate ==
    /\ ncalls < MaxCalls
    /\ \E lr \in LrVals :
         LET ups == UpdateUpdates(opt, lr)
         IN  /\ shared' = ApplyUpdates(ups)
             /\ last' = [fn |-> "f_update", lr |-> lr, grads |-> last.grads,
                         written |-> DOMAIN ups, before |-> tparams,
                         ngrad |-> last.ngrad]
             /\ run' = IF run.k > 0 /\ run.lr = lr
                       THEN [run EXCEPT !.k = @ + 1]
                       ELSE [k |-> 1, lr |-> lr, base |-> tparams]
    /\ ncalls' = ncalls + 1
    /\ UNCHANGED <<opt, exclude_params, extra_ups, p_init>>
    /\ UNCHANGED <<rbmvars, rwsvars>>

NextOp == FGradShared \/ FUpdate


(***************************************************************************)
(* src/models/rbm.py: the RBM layer                                        *)
(*                                                                         *)
(* Units (0.0 / 1.0 in floatX) are the integers 0 and 1; the weights are   *)
(* whole numbers, so every pre-activation is an integer and the sigmoid    *)
(* and the softplus are tables over the integers, in fixed point.  A batch *)
(* is a sequence of rows.                                                  *)
(***************************************************************************)
MaxSteps == 2

SigmoidTable ==
    <<500000, 731059, 880797, 952574, 982014, 993307, 997527, 999089,
      999665, 999877, 999955, 999983, 999994, 999998, 999999>>

\* T.nnet.sigmoid at the integer z, rounded to the model's resolution
Sigmoid(z) ==
    LET a == Abs(z)
        s == IF a + 1 <= Len(SigmoidTable) THEN SigmoidTable[a + 1] ELSE Scale
    IN  IF z >= 0 THEN s ELSE Scale - s

SoftplusTable ==
    <<693147, 313262, 126928, 48587, 18150, 6715, 2476, 911, 335, 123, 45, 17, 6, 2, 1>>

\* T.log(1 + T.exp(z)) at the integer z
Softplus(z) ==
    LET a == Abs(z)
        s == IF a + 1 <= Len(SoftplusTable) THEN SoftplusTable[a + 1] ELSE 0
    IN  IF z >= 0 THEN z * Scale + s ELSE s

\* the values a uniform draw in [0, 1) may take
Uniform == {0, Dec(1, 2), Scale - 1}

\* trng.uniform(size=(n, d))
UniformBatch(n, d) == [1..n -> [1..d -> Uniform]]

dim_v == Len(rbm.W)

dim_h == Len(rbm.c)

\* a strict comparison, r < p
BernoulliStrict(r, p) ==
    [n \in DOMAIN p |-> [k \in DOMAIN p[n] |-> IF r[n][k] < p[n][k] THEN 1 ELSE 0]]

\* (r <= p).astype(floatX), elementwise over a batch
Bernoulli(r, p) ==
    [n \in DOMAIN p |-> [k \in DOMAIN p[n] |-> IF r[n][k] <= p[n][k] THEN 1 ELSE 0]]

\* rbm.py 74-76: sigmoid(dot(h, W.T) + b)
step_pv_h(h, W, b) ==
    [n \in DOMAIN h |-> [i \in DOMAIN b |->
        Sigmoid(SumSeq([j \in DOMAIN h[n] |-> h[n][j] * W[i][j]]) + b[i])]]

\* rbm.py 78-81
step_sv_h(r, h, W, b) ==
    LET p == step_pv_h(h, W, b) IN <<Bernoulli(r, p), p>>

\* rbm.py 83-87: sigmoid(dot(x, W) + c)
step_ph_v(x, W, c) ==
    [n \in DOMAIN x |-> [j \in DOMAIN c |->
        Sigmoid(SumSeq([i \in DOMAIN x[n] |-> x[n][i] * W[i][j]]) + c[j])]]

\* rbm.py 89-92
step_sh_v(r, x, W, c) ==
    LET p == step_ph_v(x, W, c) IN <<Bernoulli(r, p), p>>

\* a step that hands the incoming hidden state on unchanged
step_gibbs_stale(r_h, r_v, h, W, b, c) ==
    LET sv == step_sv_h(r_v, h, W, b)
        sh == step_sh_v(r_h, sv[1], W, c)
    IN  [h |-> h, v |-> sv[1], ph |-> sh[2], pv |-> sv[2]]

\* rbm.py 94-98: v from the incoming h, then h from that v
step_gibbs(r_h, r_v, h, W, b, c) ==
    LET sv == step_sv_h(r_v, h, W, b)
        sh == step_sh_v(r_h, sv[1], W, c)
    IN  [h |-> sh[1], v |-> sv[1], ph |-> sh[2], pv |-> sv[2]]

\* rbm.py 139-152, for a two-dimensional x: one free energy per row
free_energy(x) ==
    [n \in DOMAIN x |->
        - SumSeq([i \in DOMAIN x[n] |-> x[n][i] * rbm.b[i]]) * Scale
        - SumSeq([j \in DOMAIN rbm.c |->
              Softplus(rbm.c[j] + SumSeq([i \in DOMAIN x[n] |-> rbm.W[i][j] * x[n][i]]))])]

\* tensor.mean() of a vector
Mean(t) == Sgn(SumSeq(t)) * (Abs(SumSeq(t)) \div Len(t))

\* a negative phase taken from the first sample of the chain
CallResultsFirst(x, vs) ==
    LET positive_cost == free_energy(x)
        negative_cost == free_energy(vs[1])
    IN  [cost |-> Mean(positive_cost) - Mean(negative_cost),
         positive_cost |-> Mean(positive_cost),
         negative_cost |-> Mean(negative_cost), free_energy |-> Mean(positive_cost)]

\* rbm.py 167-180
CallResults(x, vs) ==
    LET v0            == x
        vk            == vs[Len(vs)]
        positive_cost == free_energy(v0)
        negative_cost == free_energy(vk)
        cost          == Mean(positive_cost) - Mean(negative_cost)
        fe            == free_energy(v0)
    IN  [cost |-> cost, positive_cost |-> Mean(positive_cost),
         negative_cost |-> Mean(negative_cost), free_energy |-> Mean(fe)]

\* the layers and calls explored: one with two visible units and a hidden
\* unit on a batch of one, one with one unit of each on a batch of two
RBMCases ==
    { [W |-> <<<<-2>>, <<20>>>>, b |-> <<0, -1>>, c |-> <<-20>>,
       x |-> <<<<1, 0>>>>, h |-> <<<<1>>>>],
      [W |-> <<<<2>>>>, b |-> <<-1>>, c |-> <<0>>,
       x |-> <<<<1>>, <<0>>>>, h |-> <<<<0>>, <<1>>>>] }

InitRBM ==
    /\ \E case \in RBMCases, entry \in {"sample", "__call__"},
          given \in BOOLEAN, n \in 1..MaxSteps :
         /\ entry = "sample" => given
         /\ rbm = [W |-> case.W, b |-> case.b, c |-> case.c]
         /\ args = [entry |-> entry, x |-> case.x,
                    h_p |-> IF given THEN case.h ELSE None, n_steps |-> n]
    /\ pc = "start"
    /\ h0 = None
    /\ chain = [hs |-> <<>>, vs |-> <<>>, phs |-> <<>>, pvs |-> <<>>]
    /\ draws = None
    /\ h_carry = None
    /\ results = None

\* rbm.py 100-113: sample(h0, n_steps) called directly
SampleBegin ==
    /\ pc = "start"
    /\ args.entry = "sample"
    /\ h0' = args.h_p
    /\ h_carry' = args.h_p
    /\ pc' = "scan"
    /\ UNCHANGED <<rbm, args, chain, draws, results>>
    /\ UNCHANGED <<opvars, rwsvars>>

\* rbm.py 161-165: __call__ draws the initial hidden state unless h_p is given
CallBegin ==
    /\ pc = "start"
    /\ args.entry = "__call__"
    /\ LET ph0 == step_ph_v(args.x, rbm.W, rbm.c)
       IN  IF args.h_p = None
           THEN \E r \in UniformBatch(Len(args.x), dim_h) :
                  /\ draws' = [r |-> r]
                  /\ h0' = Bernoulli(r, ph0)
                  /\ h_carry' = Bernoulli(r, ph0)
           ELSE /\ draws' = draws
                /\ h0' = args.h_p
                /\ h_carry' = args.h_p
    /\ pc' = "scan"
    /\ UNCHANGED <<rbm, args, chain, results>>
    /\ UNCHANGED <<opvars, rwsvars>>

\* rbm.py 115-119: one iteration of scan over step_gibbs; after the last one
\* sample returns its outputs
ScanStep ==
    /\ pc = "scan"
    /\ Len(chain.hs) < args.n_steps
    /\ \E r_h \in UniformBatch(Len(h_carry), dim_h), r_v \in UniformBatch(Len(h_carry), dim_v) :
         LET out == step_gibbs(r_h, r_v, h_carry, rbm.W, rbm.b, rbm.c)
         IN  /\ chain' = [hs  |-> Append(chain.hs, out.h),
                          vs  |-> Append(chain.vs, out.v),
                          phs |-> Append(chain.phs, out.ph),
                          pvs |-> Append(chain.pvs, out.pv)]
             /\ h_carry' = out.h
             /\ draws' = [r_h |-> r_h, r_v |-> r_v]
    /\ pc' = IF Len(chain.hs) + 1 < args.n_steps THEN "scan"
             ELSE IF args.entry = "__call__" THEN "cost" ELSE "done"
    /\ UNCHANGED <<rbm, args, h0, results>>
    /\ UNCHANGED <<opvars, rwsvars>>

\* rbm.py 167-189
CallEnd ==
    /\ pc = "cost"
    /\ results' = CallResults(args.x, chain.vs)
    /\ pc' = "done"
    /\ UNCHANGED <<rbm, args, h0, chain, draws, h_carry>>
    /\ UNCHANGED <<opvars, rwsvars>>

NextRBM == SampleBegin \/ CallBegin \/ ScanStep \/ CallEnd

(***************************************************************************)
(* src/inference/rws.py: reweighted wake-sleep                             *)
(*                                                                         *)
(* Probabilities are exact rationals [num, den] in lowest terms.  A        *)
(* log-domain number is [lg |-> r], standing for log(r) with r a positive  *)
(* rational: adding logs multiplies the rationals, T.exp takes r out,      *)
(* T.log puts it in.  The distributions of `model` (posterior,             *)
(* conditional, prior) are factorial Bernoulli layers; the energies and    *)
(* the cost, which mix the two domains, are not computed.                  *)
(***************************************************************************)
MaxSamples == 3

RECURSIVE GCD(_, _)
GCD(a, b) == IF b = 0 THEN a ELSE GCD(b, a % b)

Rat(n, d) == LET g == GCD(Abs(n), Abs(d)) IN [num |-> (Sgn(d) * n) \div g, den |-> Abs(d) \div g]

RMul(a, b) == Rat(a.num * b.num, a.den * b.den)

RDiv(a, b) == Rat(a.num * b.den, a.den * b.num)

RAdd(a, b) == Rat(a.num * b.den + b.num * a.den, a.den * b.den)

RLeq(a, b) == a.num * b.den <= b.num * a.den

ROne == Rat(1, 1)

RECURSIVE RSum(_)
RSum(s) == IF s = <<>> THEN Rat(0, 1) ELSE RAdd(Head(s), RSum(Tail(s)))

RECURSIVE RProd(_)
RProd(s) == IF s = <<>> THEN ROne ELSE RMul(Head(s), RProd(Tail(s)))

\* T.log of a positive number
Log(r) == [lg |-> r]

\* T.exp
Exp(a) == a.lg

\* a + b, a - b and -a of log-domain numbers
LAdd(a, b) == Log(RMul(a.lg, b.lg))

LSub(a, b) == Log(RDiv(a.lg, b.lg))

LNeg(a) == Log(RDiv(ROne, a.lg))

\* T.max over a sequence of log-domain numbers
RECURSIVE LMax(_)
LMax(s) ==
    IF Len(s) = 1 THEN s[1]
    ELSE LET m == LMax(Tail(s)) IN IF RLeq(m.lg, s[1].lg) THEN s[1] ELSE m

\* utils.tools.log_sum_exp over axis 0: log(sum(exp(x - max(x)))) + max(x)
log_sum_exp(x) ==
    LET x_max == LMax(x)
    IN  LAdd(Log(RSum([k \in DOMAIN x |-> Exp(LSub(x[k], x_max))])), x_max)

\* tensor.mean(0) of a vector of log-domain numbers: the sum, with the count
\* it is to be divided by
LMean(x) == [sum |-> Log(RProd([d \in DOMAIN x |-> x[d].lg])), n |-> Len(x)]

\* the probability a factorial Bernoulli with means p gives the binary row x
BernoulliProb(x, p) ==
    RProd([i \in DOMAIN x |-> IF x[i] = 1 THEN p[i] ELSE RAdd(ROne, Rat(-p[i].num, p[i].den))])

\* neg_log_prob(x, p) of a Bernoulli layer: -sum(x log p + (1 - x) log(1 - p))
neg_log_prob(x, p) == LNeg(Log(BernoulliProb(x, p)))

\* model.conditional.feed(h) for one row h: unit i has mean (1 + C[i] . h) / 4
conditional_feed(C, h) ==
    [i \in DOMAIN C |-> Rat(1 + SumSeq([j \in DOMAIN h |-> C[i][j] * h[j]]), 4)]

\* the values a uniform draw in [0, 1) may take
UniformR == {Rat(0, 1), Rat(1, 2), Rat(7, 8)}

\* the models and data explored: q is model.posterior.feed(x)
RWSCases ==
    { [C |-> <<<<1, 1>>>>, prior |-> <<Rat(1, 2), Rat(1, 4)>>,
       q |-> <<<<Rat(1, 4), Rat(1, 2)>>>>, qk |-> <<<<Rat(1, 2), Rat(3, 4)>>>>,
       y |-> <<<<1>>>>],
      [C |-> <<<<2>>, <<1>>>>, prior |-> <<Rat(1, 4)>>,
       q |-> <<<<Rat(1, 4)>>, <<Rat(3, 4)>>>>, qk |-> <<<<Rat(1, 2)>>, <<Rat(1, 2)>>>>,
       y |-> <<<<1, 0>>, <<0, 0>>>>] }

\* rws.py 36-37: h = (r <= q_c[None, :, :])
SampleH(r, q_c) ==
    [k \in DOMAIN r |-> [d \in DOMAIN q_c |-> [j \in DOMAIN q_c[d] |->
        IF RLeq(r[k][d][j], q_c[d][j]) THEN 1 ELSE 0]]]

\* rws.py 52: log_py_h + log_ph - log_qh - T.log(n_posterior_samples)
LogPq(log_py_h, log_ph, log_qh, n) ==
    [k \in DOMAIN log_py_h |-> [d \in DOMAIN log_py_h[k] |->
        LSub(LSub(LAdd(log_py_h[k][d], log_ph[k][d]), log_qh[k][d]), Log(Rat(n, 1)))]]

\* rws.py 47, 50: log_sum_exp(log_py_h + log_ph - log_q, axis=0) - T.log(n)
LogP(log_py_h, log_ph, log_q, n) ==
    [d \in DOMAIN log_py_h[1] |->
        LSub(log_sum_exp([k \in DOMAIN log_py_h |->
                 LSub(LAdd(log_py_h[k][d], log_ph[k][d]), log_q[k][d])]),
             Log(Rat(n, 1)))]

\* rws.py 53: log_sum_exp(log_pq, axis=0)
WNorm(log_pq) ==
    [d \in DOMAIN log_pq[1] |-> log_sum_exp([k \in DOMAIN log_pq |-> log_pq[k][d]])]

\* log weights left as they are
LogWUnnormalized(log_pq, w_norm) == log_pq

\* rws.py 54: log_pq - T.shape_padleft(w_norm)
LogW(log_pq, w_norm) ==
    [k \in DOMAIN log_pq |-> [d \in DOMAIN log_pq[k] |-> LSub(log_pq[k][d], w_norm[d])]]

\* rws.py 55: T.exp(log_w)
WTilde(log_w) == [k \in DOMAIN log_w |-> [d \in DOMAIN log_w[k] |-> Exp(log_w[k][d])]]

\* rws.py 38-61, 74, 85: what __call__ computes from the samples h
RWSResults(a, h) ==
    LET n        == a.n_posterior_samples
        py       == [k \in DOMAIN h |-> [d \in DOMAIN h[k] |-> conditional_feed(a.case.C, h[k][d])]]
        log_py_h == [k \in DOMAIN h |-> [d \in DOMAIN h[k] |-> LNeg(neg_log_prob(a.y[d], py[k][d]))]]
        log_ph   == [k \in DOMAIN h |-> [d \in DOMAIN h[k] |-> LNeg(neg_log_prob(h[k][d], a.case.prior))]]
        log_qh   == [k \in DOMAIN h |-> [d \in DOMAIN h[k] |-> LNeg(neg_log_prob(h[k][d], a.q[d]))]]
        log_p    == IF a.qk = None
                    THEN LogP(log_py_h, log_ph, log_qh, n)
                    ELSE LogP(log_py_h, log_ph,
                              [k \in DOMAIN h |-> [d \in DOMAIN h[k] |->
                                  LNeg(neg_log_prob(h[k][d], a.qk[d]))]], n)
        log_pq   == LogPq(log_py_h, log_ph, log_qh, n)
        w_norm   == WNorm(log_pq)
        log_w    == LogW(log_pq, w_norm)
        w_tilde  == WTilde(log_w)
        nll      == [d \in DOMAIN log_p |-> LNeg(log_p[d])]
    IN  [w_tilde |-> w_tilde, w_norm |-> w_norm, log_p |-> log_p, nlogpx |-> LMean(nll)]

InitRWS ==
    /\ \E case \in RWSCases, with_qk \in BOOLEAN, n \in 1..MaxSamples :
         rws_args = [case |-> case, q |-> case.q, qk |-> IF with_qk THEN case.qk ELSE None,
                     y |-> case.y, n_posterior_samples |-> n]
    /\ rws_pc = "start"
    /\ rws_h = None
    /\ rws_out = None

\* rws.py 25-86: RWS.__call__(x, y, n_posterior_samples, qk)
RWSCall ==
    /\ rws_pc = "start"
    /\ LET q_c == IF rws_args.qk = None THEN rws_args.q ELSE rws_args.qk
       IN  \E r \in [1..rws_args.n_posterior_samples ->
                       [DOMAIN rws_args.y -> [DOMAIN rws_args.q[1] -> UniformR]]] :
             /\ rws_h' = SampleH(r, q_c)
             /\ rws_out' = RWSResults(rws_args, SampleH(r, q_c))
    /\ rws_pc' = "done"
    /\ UNCHANGED rws_args
    /\ UNCHANGED <<opvars, rbmvars>>

NextRWS == RWSCall

(***************************************************************************)
(* Claims about the optimizers, checked under SpecOp                       *)
(***************************************************************************)
\* the gradient buffers as f_grad_shared fills them from the gradients g
StoredGrads(o, g) == IF o = "adam" THEN AdamScaledGrads(g) ELSE g

\* the running statistics f_grad_shared assigns besides the gradient buffers
StatKinds(o) ==
    CASE o = "adadelta" -> {"rgrad2"}
      [] o = "rmsprop"  -> {"rgrad", "rgrad2"}
      [] OTHER          -> {}

\* extra_ups contain no model parameter
ExtraUpsFreeOfParams == extra_ups \cap ParamKeys = {}

\* C1: with extra_ups free of parameters, f_grad_shared assigns the gradient
\* buffers (from the gradients as the optimizer takes them), the running
\* statistics of adadelta and rmsprop and the extra_ups variables, and no
\* parameter; whenever a call changed a parameter, the call was f_update.
C1_TwoPhases ==
    ExtraUpsFreeOfParams =>
      /\ last.fn = "f_grad_shared" =>
           /\ tparams = last.before
           /\ last.written = {K(kind, n) : kind \in {"grad"} \cup StatKinds(opt), n \in ParamNames}
                                 \cup extra_ups
           /\ \A n \in ParamNames : shared[K("grad", n)] = StoredGrads(opt, last.grads)[n]
      /\ tparams # last.before => last.fn = "f_update"

\* rmsprop's f_grad_shared, with extra_ups, ran after an f_update had moved
\* the parameters, and updated the running statistics
C1_Witness ==
    /\ last.fn = "f_grad_shared"
    /\ last.ngrad >= 2
    /\ tparams # p_init
    /\ extra_ups = {RngKey}
    /\ ExtraUpsFreeOfParams
    /\ opt = "rmsprop"
    /\ shared[K("rgrad2", "W")] # shared[K("grad", "W")]
    /\ shared[K("rgrad2", "W")] # Zeros(p_init["W"])

\* C2 as stated: an excluded parameter keeps its initial value whatever is
\* called and whatever extra_ups hold, in adam also when its name contains
\* 'W'; every f_update assigns exactly the parameters that are not excluded.
C2_ExcludedParamsKeptAlways ==
    /\ \A n \in exclude_params : tparams[n] = p_init[n]
    /\ last.fn = "f_update" =>
         last.written \cap ParamKeys = {K("param", n) : n \in ParamNames \ exclude_params}

\* C2, amended: an excluded parameter that extra_ups do not assign keeps its
\* initial value whatever is called (so every excluded parameter does when
\* extra_ups contain no parameter), in adam also when its name contains 'W';
\* no f_update changes an excluded parameter, and every f_update assigns
\* exactly the parameters that are not excluded.
C2_ExcludedParamsKept ==
    /\ \A n \in exclude_params : K("param", n) \notin extra_ups => tparams[n] = p_init[n]
    /\ last.fn = "f_update" =>
         /\ \A n \in exclude_params : tparams[n] = last.before[n]
         /\ last.written \cap ParamKeys = {K("param", n) : n \in ParamNames \ exclude_params}

\* adam, W excluded with column norm above 1.9365 and not among extra_ups,
\* which assign b; b updated, gradients stored
C2_Witness ==
    /\ opt = "adam"
    /\ exclude_params = {"W"}
    /\ extra_ups \cap ParamKeys = {K("param", "b")}
    /\ Sqrt(SumSqr(p_init["W"])) > MaxColNorm
    /\ last.fn = "f_update"
    /\ last.ngrad >= 1
    /\ run.k >= 2
    /\ tparams["b"] # p_init["b"]

\* C3: in sgd the gradient buffer holds the gradients of the latest
\* f_grad_shared (zeros before the first); f_update(lr) sets each parameter
\* that is not excluded to p - lr * g; f_update before any f_grad_shared
\* changes nothing; k f_update(lr) calls in a row move p by k * (lr * g).
C3_SgdStep ==
    opt = "sgd" =>
      /\ \A n \in ParamNames : shared[K("grad", n)] = last.grads[n]
      /\ last.ngrad = 0 => tparams = p_init /\ last.grads = ZeroGrads
      /\ last.fn = "f_update" =>
           \A n \in ParamNames \ exclude_params : \A j \in DOMAIN tparams[n] :
              tparams[n][j] = last.before[n][j] - Mul(last.lr, last.grads[n][j])
      /\ run.k > 0 =>
           \A n \in ParamNames \ exclude_params : \A j \in DOMAIN tparams[n] :
              tparams[n][j] = run.base[n][j] - run.k * Mul(run.lr, last.grads[n][j])

\* three f_update calls in a row after a f_grad_shared, on a moving parameter
C3_Witness ==
    /\ opt = "sgd"
    /\ last.ngrad = 1
    /\ run.k = 3
    /\ exclude_params = {}
    /\ tparams["W"][1] = p_init["W"][1] - 3 * Mul(run.lr, last.grads["W"][1])
    /\ tparams["W"][1] # p_init["W"][1]

(***************************************************************************)
(* Claims about the RBM, checked under SpecRBM                             *)
(***************************************************************************)
Steps == Len(chain.hs)

\* the hidden state step t of the chain starts from
HiddenBefore(t) == IF t = 1 THEN h0 ELSE chain.hs[t - 1]

IsBinary(m) == \A n \in DOMAIN m : \A k \in DOMAIN m[n] : m[n][k] \in {0, 1}

\* C4: the chain of sample(h0, n_steps) has n_steps steps; at every step t
\* the visible units are sampled from the hidden state before it (h0 at the
\* first step) and the hidden units from the visible units of the same
\* step; vs, hs, pvs and phs have n_steps entries each; W, b and c stay as
\* constructed.
C4_GibbsChain ==
    pc \in {"scan", "cost", "done"} =>
      /\ Len(chain.vs) = Steps /\ Len(chain.pvs) = Steps /\ Len(chain.phs) = Steps
      /\ Steps <= args.n_steps
      /\ pc \in {"cost", "done"} <=> Steps = args.n_steps
      /\ args.entry = "sample" => h0 = args.h_p
      /\ \A t \in 1..Steps :
           /\ chain.pvs[t] = step_pv_h(HiddenBefore(t), rbm.W, rbm.b)
           /\ chain.phs[t] = step_ph_v(chain.vs[t], rbm.W, rbm.c)
      /\ Steps > 0 =>
           /\ chain.vs[Steps] = [n \in DOMAIN h0 |-> [i \in 1..dim_v |->
                 IF draws.r_v[n][i] <= chain.pvs[Steps][n][i] THEN 1 ELSE 0]]
           /\ chain.hs[Steps] = [n \in DOMAIN h0 |-> [j \in 1..dim_h |->
                 IF draws.r_h[n][j] <= chain.phs[Steps][n][j] THEN 1 ELSE 0]]
           /\ h_carry = chain.hs[Steps]
      /\ \E case \in RBMCases :
           rbm = [W |-> case.W, b |-> case.b, c |-> case.c] /\ args.x = case.x

\* sample called directly ran two steps whose hidden states differ, and the
\* second visible sample came from a hidden state other than h0
C4_Witness ==
    /\ args.entry = "sample"
    /\ pc = "done"
    /\ Steps = 2
    /\ chain.hs[1] # h0
    /\ chain.hs[2] # chain.hs[1]
    /\ chain.vs[2] # chain.vs[1]
    /\ step_ph_v(chain.vs[1], rbm.W, rbm.c) # chain.phs[2]

\* the free energy of one row x of visible units, spelled out
RowFreeEnergy(x) ==
    - SumSeq([i \in 1..dim_v |-> x[i] * rbm.b[i] * Scale])
    - SumSeq([j \in 1..dim_h |->
          Softplus(rbm.c[j] + SumSeq([i \in 1..dim_v |-> rbm.W[i][j] * x[i]]))])

BatchMean(rows) ==
    LET total == SumSeq([n \in DOMAIN rows |-> RowFreeEnergy(rows[n])])
    IN  Sgn(total) * (Abs(total) \div Len(rows))

\* C5: __call__ returns cost = mean free energy of x minus mean free energy
\* of the last visible sample, cost = positive_cost - negative_cost and
\* free_energy = positive_cost; the chain starts from h_p when it is given,
\* with no draw taken, and from a sample of p(h | x) when h_p is None.
C5_CallCost ==
    args.entry = "__call__" =>
      /\ pc = "done" =>
           /\ results.cost = BatchMean(args.x) - BatchMean(chain.vs[args.n_steps])
           /\ results.cost = results.positive_cost - results.negative_cost
           /\ results.positive_cost = BatchMean(args.x)
           /\ results.free_energy = results.positive_cost
      /\ pc # "start" /\ args.h_p # None => h0 = args.h_p
      /\ pc = "scan" /\ Steps = 0 =>
           IF args.h_p = None
           THEN h0 = [n \in DOMAIN args.x |-> [j \in 1..dim_h |->
                        IF draws.r[n][j] <= step_ph_v(args.x, rbm.W, rbm.c)[n][j]
                        THEN 1 ELSE 0]]
           ELSE draws = None

\* __call__ finished a two-step chain on a batch of two whose last visible
\* sample differs from the first and from the data
C5_Witness ==
    /\ args.entry = "__call__"
    /\ pc = "done"
    /\ args.n_steps = 2
    /\ Len(args.x) = 2
    /\ args.h_p = None
    /\ BatchMean(chain.vs[2]) # BatchMean(chain.vs[1])
    /\ results.cost # 0

\* C7: every sampled unit is 0 or 1, and is 1 exactly when its uniform draw
\* r is at most the unit's probability p, so p = 1 gives 1 and r = 0 gives 1.
C7_BinaryUnits ==
    /\ pc \in {"scan", "cost", "done"} =>
         /\ IsBinary(h0)
         /\ \A t \in 1..Steps : IsBinary(chain.hs[t]) /\ IsBinary(chain.vs[t])
    /\ pc \in {"scan", "cost", "done"} /\ Steps > 0 =>
         \A n \in DOMAIN h0 :
           /\ \A i \in 1..dim_v :
                /\ chain.vs[Steps][n][i] = 1 <=> draws.r_v[n][i] <= chain.pvs[Steps][n][i]
                /\ chain.pvs[Steps][n][i] = Scale => chain.vs[Steps][n][i] = 1
                /\ draws.r_v[n][i] = 0 => chain.vs[Steps][n][i] = 1
           /\ \A j \in 1..dim_h :
                /\ chain.hs[Steps][n][j] = 1 <=> draws.r_h[n][j] <= chain.phs[Steps][n][j]
                /\ chain.phs[Steps][n][j] = Scale => chain.hs[Steps][n][j] = 1
                /\ draws.r_h[n][j] = 0 => chain.hs[Steps][n][j] = 1
    /\ pc = "scan" /\ Steps = 0 /\ args.entry = "__call__" /\ args.h_p = None =>
         \A n \in DOMAIN h0 : \A j \in 1..dim_h :
           /\ h0[n][j] = 1 <=> draws.r[n][j] <= step_ph_v(args.x, rbm.W, rbm.c)[n][j]
           /\ draws.r[n][j] = 0 => h0[n][j] = 1

\* a hidden unit drawn with r equal to its probability 1/2 came out 1, next
\* to a visible unit of probability 1 drawn with the largest r
C7_Witness ==
    /\ pc \in {"scan", "cost", "done"} /\ Steps > 0
    /\ \E n \in DOMAIN h0 : \E j \in 1..dim_h :
         /\ draws.r_h[n][j] = chain.phs[Steps][n][j]
         /\ chain.hs[Steps][n][j] = 1
    /\ \E n \in DOMAIN h0 : \E i \in 1..dim_v :
         /\ chain.pvs[Steps][n][i] = Scale
         /\ draws.r_v[n][i] = Scale - 1
         /\ chain.vs[Steps][n][i] = 1

(***************************************************************************)
(* Claims about RWS, checked under SpecRWS                                 *)
(***************************************************************************)
\* p(y | h) p(h) / q(h) of sample k for data point d, from the model's
\* distributions
ImportanceRatio(k, d) ==
    RDiv(RMul(BernoulliProb(rws_args.y[d], conditional_feed(rws_args.case.C, rws_h[k][d])),
              BernoulliProb(rws_h[k][d], rws_args.case.prior)),
         BernoulliProb(rws_h[k][d], rws_args.q[d]))

SampleIndices == 1..rws_args.n_posterior_samples

DataIndices == DOMAIN rws_args.y

\* C6: for every data point the weights w_tilde are non-negative, sum to 1
\* and are proportional to p(y|h) p(h) / q(h), so they are that ratio over
\* the sum of the ratios, in which n_posterior_samples does not occur; when
\* qk is None, '-log p(x)' is the mean over the data points of -w_norm.
C6_ImportanceWeights ==
    rws_pc = "done" =>
      /\ \A d \in DataIndices :
           /\ \A k \in SampleIndices : rws_out.w_tilde[k][d].num >= 0
           /\ RSum([k \in SampleIndices |-> rws_out.w_tilde[k][d]]) = ROne
           /\ \A k, j \in SampleIndices :
                RMul(rws_out.w_tilde[k][d], ImportanceRatio(j, d))
                  = RMul(rws_out.w_tilde[j][d], ImportanceRatio(k, d))
           /\ \A k \in SampleIndices :
                rws_out.w_tilde[k][d]
                  = RDiv(ImportanceRatio(k, d),
                         RSum([j \in SampleIndices |-> ImportanceRatio(j, d)]))
      /\ rws_args.qk = None =>
           /\ \A d \in DataIndices : rws_out.log_p[d] = rws_out.w_norm[d]
           /\ rws_out.nlogpx = LMean([d \in DataIndices |-> LNeg(rws_out.w_norm[d])])

\* three samples for two data points, qk None, with unequal weights
C6_Witness ==
    /\ rws_pc = "done"
    /\ rws_args.qk = None
    /\ rws_args.n_posterior_samples = 3
    /\ Len(rws_args.y) = 2
    /\ \E d \in DataIndices : rws_out.w_tilde[1][d] # rws_out.w_tilde[2][d]
    /\ rws_out.w_norm[1] # rws_out.w_norm[2]

(***************************************************************************)
(* Specifications                                                          *)
(***************************************************************************)
IdleOp ==
    /\ opt = None
    /\ exclude_params = {}
    /\ extra_ups = {}
    /\ shared = <<>>
    /\ p_init = <<>>
    /\ last = None
    /\ run = None
    /\ ncalls = 0

IdleRBM ==
    /\ rbm = None
    /\ args = None
    /\ pc = "idle"
    /\ h0 = None
    /\ chain = None
    /\ draws = None
    /\ h_carry = None
    /\ results = None

IdleRWS ==
    /\ rws_args = None
    /\ rws_pc = "idle"
    /\ rws_h = None
    /\ rws_out = None

InitSpecOp == InitOp /\ IdleRBM /\ IdleRWS

SpecOp == InitSpecOp /\ [][NextOp]_vars

InitSpecRBM == InitRBM /\ IdleOp /\ IdleRWS

SpecRBM == InitSpecRBM /\ [][NextRBM]_vars

InitSpecRWS == InitRWS /\ IdleOp /\ IdleRBM

SpecRWS == InitSpecRWS /\ [][NextRWS]_vars

====
